---- MODULE Spec2Model ----
(***************************************************************************)
(* A model of pw, the "Dumb Password Manager" (src/src/main.rs).           *)
(*                                                                         *)
(* Text is a sequence of one-character strings.  The store file is a flat  *)
(* text; the model splits it into lines, trims and tokenises it the way    *)
(* str::lines, str::trim and str::split_whitespace do.                     *)
(***************************************************************************)
EXTENDS Integers, Sequences, FiniteSets, TLC

VARIABLES
    store,      \* ghost: the line descriptors the store file was written from
    file,       \* the text of the password file on disk
    fileOk,     \* whether fs::read_to_string succeeds
    cmd,        \* the subcommand: "check", "get" or "list"
    acc,        \* get's account name / list's query
    format,     \* get's format string
    pc,         \* "start" before the subcommand ran, "done" after
    result,     \* main's Result<(), Error>
    stdout,     \* the lines printed with println!
    data,       \* the String `data` as the handler leaves it
    buf,        \* the bytes left in data's heap buffer when the handler returns
    fmtIn,      \* fmt_entry's argument fmt
    entryIn,    \* fmt_entry's argument entry
    fmtOut,     \* fmt_entry's return value, <<>> before the call
    fmtPc,      \* "start" / "done" of the fmt_entry call
    gpc,        \* generate: "idle", "loop", "done" (Ok) or "failed" (Err)
    spawned,    \* generate: number of pwgen processes spawned so far
    attempts,   \* generate: ghost, the outcomes of the attempts so far
    gout,       \* generate: the lines printed with println!
    verbose,    \* the number of -v flags: info! is written from 1 on
    glog,       \* generate: the lines written by info!
    gresult     \* generate: the returned Result<(), Error>

storeVars == <<store, file, fileOk, acc, format, pc, result, stdout, data, buf>>
fmtVars == <<fmtIn, entryIn, fmtOut, fmtPc>>
genVars == <<gpc, spawned, attempts, gout, verbose, glog, gresult>>
vars == <<cmd, storeVars, fmtVars, genVars>>

(***************************************************************************)
(* Bounds of the model.                                                    *)
(***************************************************************************)
MaxLines == 3
MaxFmtLen == 3
MaxAttempts == 3

(***************************************************************************)
(* Text primitives of the Rust standard library, as the code uses them.    *)
(***************************************************************************)
NL == "\n"

IsWhitespace(c) == c \in {" ", "\t", NL, "\r"}

RECURSIVE trim_start(_)
trim_start(s) ==
    IF s = <<>> THEN <<>>
    ELSE IF IsWhitespace(Head(s)) THEN trim_start(Tail(s))
    ELSE s

RECURSIVE trim_end(_)
trim_end(s) ==
    IF s = <<>> THEN <<>>
    ELSE IF IsWhitespace(s[Len(s)]) THEN trim_end(SubSeq(s, 1, Len(s) - 1))
    ELSE s

trim(s) == trim_end(trim_start(s))

starts_with(s, c) == s # <<>> /\ Head(s) = c

\* str::split_whitespace: the maximal runs of non-whitespace characters.
RECURSIVE split_ws_loop(_, _, _)
split_ws_loop(s, cur, toks) ==
    IF s = <<>> THEN (IF cur = <<>> THEN toks ELSE Append(toks, cur))
    ELSE IF IsWhitespace(Head(s))
         THEN split_ws_loop(Tail(s), <<>>, IF cur = <<>> THEN toks ELSE Append(toks, cur))
         ELSE split_ws_loop(Tail(s), Append(cur, Head(s)), toks)

split_whitespace(s) == split_ws_loop(s, <<>>, <<>>)

\* str::lines: split at "\n", a final empty line is dropped, a "\r" before the
\* "\n" is stripped.
StripCR(l) == IF l # <<>> /\ l[Len(l)] = "\r" THEN SubSeq(l, 1, Len(l) - 1) ELSE l

RECURSIVE lines_loop(_, _, _)
lines_loop(s, cur, ls) ==
    IF s = <<>> THEN (IF cur = <<>> THEN ls ELSE Append(ls, StripCR(cur)))
    ELSE IF Head(s) = NL
         THEN lines_loop(Tail(s), <<>>, Append(ls, StripCR(cur)))
         ELSE lines_loop(Tail(s), Append(cur, Head(s)), ls)

lines(s) == lines_loop(s, <<>>, <<>>)

\* char::to_lowercase over the model's alphabet.
LowerChar(c) ==
    CASE c = "A" -> "a"
      [] c = "B" -> "b"
      [] c = "N" -> "n"
      [] c = "L" -> "l"
      [] c = "U" -> "u"
      [] c = "P" -> "p"
      [] c = "X" -> "x"
      [] OTHER -> c

to_lowercase(s) == [i \in 1..Len(s) |-> LowerChar(s[i])]

\* str::contains(&str): needle occurs as a contiguous substring.
contains(hay, needle) ==
    \E i \in 0..(Len(hay) - Len(needle)) :
        SubSeq(hay, i + 1, i + Len(needle)) = needle

\* char::is_ascii_punctuation over the model's alphabet.
is_ascii_punctuation(c) ==
    c \in {"!", "#", "%", "(", ")", "*", "+", "-", ":", "|", "/", "?", "@", "_"}

(***************************************************************************)
(* enum Error.  Every error is a record of the same shape; num is 0 and    *)
(* str is <<>> where the variant carries none.                             *)
(***************************************************************************)
Err(kind, num, str) == [kind |-> kind, num |-> num, str |-> str]

Ok == Err("Ok", 0, <<>>)
NotRun == Err("NotRun", 0, <<>>)

PassFile == Err("PassFile", 0, <<>>)
MissingMarker(num) == Err("MissingMarker", num, <<>>)
MissingName(num) == Err("MissingName", num, <<>>)
MissingLink(num) == Err("MissingLink", num, <<>>)
MissingUsername(num) == Err("MissingUsername", num, <<>>)
MissingPassword(num) == Err("MissingPassword", num, <<>>)
InvalidEntryMarker(num, marker) == Err("InvalidEntryMarker", num, marker)
Mismatch(a) == Err("Mismatch", 0, a)
NoMatches(a) == Err("NoMatches", 0, a)

(***************************************************************************)
(* The record parser: EntryData::parse, Entry::parse, parse.               *)
(* An iterator of tokens is the sequence of the tokens it has yet to give. *)
(***************************************************************************)
NoData == [name |-> <<>>, link |-> <<>>, username |-> <<>>, password |-> <<>>]

ParseErr(e) == [ok |-> FALSE, err |-> e, variant |-> "None", data |-> NoData]
ParseOk(variant, d) == [ok |-> TRUE, err |-> Ok, variant |-> variant, data |-> d]

\* EntryData::parse: four iter.next() in the order name, link, username,
\* password, each `?` returning the error of the first one that is missing.
EntryData_parse(num, iter) ==
    IF Len(iter) < 1 THEN ParseErr(MissingName(num))
    ELSE IF Len(iter) < 2 THEN ParseErr(MissingLink(num))
    ELSE IF Len(iter) < 3 THEN ParseErr(MissingUsername(num))
    ELSE IF Len(iter) < 4 THEN ParseErr(MissingPassword(num))
    ELSE ParseOk("Data", [name |-> iter[1], link |-> iter[2],
                          username |-> iter[3], password |-> iter[4]])

\* Entry::parse: the marker is taken first, the fields are parsed next, and
\* only then is the marker matched.
Entry_parse(num, iter) ==
    IF iter = <<>> THEN ParseErr(MissingMarker(num))
    ELSE LET marker == Head(iter)
             d == EntryData_parse(num, Tail(iter))
         IN  IF ~d.ok THEN d
             ELSE IF marker = <<"+">> THEN ParseOk("Valid", d.data)
             ELSE IF marker = <<"-">> THEN ParseOk("Invalid", d.data)
             ELSE IF marker = <<"*">> THEN ParseOk("Change", d.data)
             ELSE ParseErr(InvalidEntryMarker(num, marker))

\* parse's filter closure: keep the lines that are neither blank nor comments.
KeepLine(line) ==
    LET t == trim(line)
    IN  t # <<>> /\ ~starts_with(t, "#")

\* parse's map closure; num is enumerate()'s 0-based index.
MapLine_OffByOne(num, line) == Entry_parse(num, split_whitespace(line))
MapLine(num, line) == Entry_parse(num + 1, split_whitespace(line))

RECURSIVE parse_from(_, _)
parse_from(ls, i) ==
    IF i > Len(ls) THEN <<>>
    ELSE IF KeepLine(ls[i]) THEN <<MapLine(i - 1, ls[i])>> \o parse_from(ls, i + 1)
    ELSE parse_from(ls, i + 1)

\* parse: the items the lazy iterator yields, in order.  Parsing has no side
\* effect, so a consumer that stops early sees a prefix of this sequence.
parse(text) == parse_from(lines(text), 1)

(***************************************************************************)
(* fmt_entry: the template renderer.                                       *)
(***************************************************************************)
\* One turn of the `while let Some(c) = iter.next()` loop: st.rest is what the
\* iterator has yet to give, st.out the String built so far.
fmt_step_PercentEscape(st, entry) ==
    LET c == Head(st.rest)
        r == Tail(st.rest)
    IN  IF c = "%"
        THEN IF r = <<>> THEN [rest |-> <<>>, out |-> Append(st.out, c)]
             ELSE LET c2 == Head(r)
                  IN  [rest |-> Tail(r),
                       out |-> CASE c2 = "N" -> st.out \o entry.name
                                 [] c2 = "L" -> st.out \o entry.link
                                 [] c2 = "U" -> st.out \o entry.username
                                 [] c2 = "P" -> st.out \o entry.password
                                 [] c2 = "%" -> Append(st.out, c)
                                 [] OTHER -> st.out \o <<c, c2>>]
        ELSE [rest |-> r, out |-> Append(st.out, c)]

fmt_step(st, entry) ==
    LET c == Head(st.rest)
        r == Tail(st.rest)
    IN  IF c = "%"
        THEN IF r = <<>> THEN [rest |-> <<>>, out |-> Append(st.out, c)]
             ELSE LET c2 == Head(r)
                  IN  [rest |-> Tail(r),
                       out |-> CASE c2 = "N" -> st.out \o entry.name
                                 [] c2 = "L" -> st.out \o entry.link
                                 [] c2 = "U" -> st.out \o entry.username
                                 [] c2 = "P" -> st.out \o entry.password
                                 [] OTHER -> st.out \o <<c, c2>>]
        ELSE [rest |-> r, out |-> Append(st.out, c)]

RECURSIVE fmt_loop(_, _)
fmt_loop(st, entry) ==
    IF st.rest = <<>> THEN st.out ELSE fmt_loop(fmt_step(st, entry), entry)

fmt_entry(fmt, entry) == fmt_loop([rest |-> fmt, out |-> <<>>], entry)

(***************************************************************************)
(* The store-reading handlers: check, get, list.  Each is an operator from *)
(* the file's text (and the arguments) to what the handler leaves behind:  *)
(* its Result, the lines it printed, the String data and the bytes of      *)
(* data's heap buffer.                                                     *)
(***************************************************************************)
NUL == "NUL"

\* String::zeroize: every byte of the buffer is overwritten with 0 and the
\* String is cleared.
Zeroize(s) == [i \in 1..Len(s) |-> NUL]

Ran(res, out, d, b) == [result |-> res, stdout |-> out, data |-> d, buf |-> b]

\* {} of an integer in a format string.
DigitChar(d) == <<"0", "1", "2", "3", "4", "5", "6", "7", "8", "9">>[d + 1]

RECURSIVE Decimal(_)
Decimal(n) == IF n < 10 THEN <<DigitChar(n)>> ELSE Append(Decimal(n \div 10), DigitChar(n % 10))

\* check's println!("{} current, {} inactive, {} need changing", ...).
TallyLine(valid, invalid, change) ==
    Decimal(valid)
    \o <<" ", "c", "u", "r", "r", "e", "n", "t", ",", " ">>
    \o Decimal(invalid)
    \o <<" ", "i", "n", "a", "c", "t", "i", "v", "e", ",", " ">>
    \o Decimal(change)
    \o <<" ", "n", "e", "e", "d", " ", "c", "h", "a", "n", "g", "i", "n", "g">>

\* One turn of check's for loop: `entry?`, then the match.
check_step_SkipErr(st, e) ==
    IF ~e.ok THEN st
    ELSE IF e.variant = "Valid" THEN [st EXCEPT !.valid = @ + 1]
    ELSE IF e.variant = "Invalid" THEN [st EXCEPT !.invalid = @ + 1]
    ELSE [st EXCEPT !.change = @ + 1]

check_step_ChangeAsInvalid(st, e) ==
    IF ~e.ok THEN [st EXCEPT !.ret = e.err]
    ELSE IF e.variant = "Valid" THEN [st EXCEPT !.valid = @ + 1]
    ELSE [st EXCEPT !.invalid = @ + 1]

check_step(st, e) ==
    IF ~e.ok THEN [st EXCEPT !.ret = e.err]
    ELSE IF e.variant = "Valid" THEN [st EXCEPT !.valid = @ + 1]
    ELSE IF e.variant = "Invalid" THEN [st EXCEPT !.invalid = @ + 1]
    ELSE [st EXCEPT !.change = @ + 1]

\* The for loops: st.ret = NotRun while the loop goes on, the returned error
\* once a `?` or a return left the function.
RECURSIVE check_loop(_, _, _)
check_loop(entries, i, st) ==
    IF i > Len(entries) \/ st.ret # NotRun THEN st
    ELSE check_loop(entries, i + 1, check_step(st, entries[i]))

check(text) ==
    LET st == check_loop(parse(text), 1,
                         [ret |-> NotRun, valid |-> 0, invalid |-> 0, change |-> 0])
    IN  IF st.ret # NotRun THEN Ran(st.ret, <<>>, text, text)
        ELSE Ran(Ok, <<TallyLine(st.valid, st.invalid, st.change)>>, <<>>, Zeroize(text))

\* get's test of one entry: `if let Entry::Valid(data)` and `data.name == acc`.
get_matches_AnyStatus(e, a) == e.data.name = a
get_matches(e, a) == e.variant = "Valid" /\ e.data.name = a

\* One turn of get's for loop; matched is <<>> for None, <<d>> for Some(d).
get_step(st, e, a) ==
    IF ~e.ok THEN [st EXCEPT !.ret = e.err]
    ELSE IF get_matches(e, a)
         THEN IF st.matched # <<>> THEN [st EXCEPT !.ret = Mismatch(a)]
              ELSE [st EXCEPT !.matched = <<e.data>>]
    ELSE st

RECURSIVE get_loop(_, _, _, _)
get_loop(entries, i, st, a) ==
    IF i > Len(entries) \/ st.ret # NotRun THEN st
    ELSE get_loop(entries, i + 1, get_step(st, entries[i], a), a)

get(text, a, f) ==
    LET st == get_loop(parse(text), 1, [ret |-> NotRun, matched |-> <<>>], a)
    IN  IF st.ret # NotRun THEN Ran(st.ret, <<>>, text, text)
        ELSE IF st.matched = <<>> THEN Ran(NoMatches(a), <<>>, text, text)
        ELSE Ran(Ok, <<fmt_entry(f, st.matched[1])>>, <<>>, Zeroize(text))

\* list's fixed template "%N (%L) %U %P".
ListFormat == <<"%", "N", " ", "(", "%", "L", ")", " ", "%", "U", " ", "%", "P">>

\* list's test of one entry.
list_matches_CaseSensitive(e, query) == e.variant = "Valid" /\ contains(e.data.name, query)
list_matches(e, query) ==
    e.variant = "Valid" /\ contains(to_lowercase(e.data.name), to_lowercase(query))

\* One turn of list's for loop; the lines printed before a parse error stay
\* printed.
list_step(st, e, query) ==
    IF ~e.ok THEN [st EXCEPT !.ret = e.err]
    ELSE IF list_matches(e, query)
         THEN [st EXCEPT !.out = Append(@, fmt_entry(ListFormat, e.data))]
    ELSE st

RECURSIVE list_loop(_, _, _, _)
list_loop(entries, i, st, query) ==
    IF i > Len(entries) \/ st.ret # NotRun THEN st
    ELSE list_loop(entries, i + 1, list_step(st, entries[i], query), query)

list(text, query) ==
    LET st == list_loop(parse(text), 1, [ret |-> NotRun, out |-> <<>>], query)
    IN  IF st.ret # NotRun THEN Ran(st.ret, st.out, text, text)
        ELSE Ran(Ok, st.out, <<>>, Zeroize(text))

(***************************************************************************)
(* generate: one pwgen process per turn of 'gen_loop.  What the process    *)
(* does is the environment's choice, an outcome record:                    *)
(*   spawnOk, waitOk   whether spawn() and wait() succeed                  *)
(*   code              <<>> when a signal killed it, else <<exit code>>    *)
(*   stderrOk, stderr  whether stderr can be read, and its text            *)
(*   stdoutOk, stdout  whether stdout can be read, and its text            *)
(* Both pipes are Stdio::piped(), so child.stdout and child.stderr are     *)
(* always Some.                                                            *)
(***************************************************************************)
PwGenSpawn == Err("PwGenSpawn", 0, <<>>)
PwGenWait == Err("PwGenWait", 0, <<>>)
PwGenErr(code) == Err("PwGenErr", code, <<>>)
PwGenErrMsg(code, msg) == Err("PwGenErrMsg", code, msg)
PwGenStderrErr(code) == Err("PwGenStderrErr", code, <<>>)
PwGenNoStdout == Err("PwGenNoStdout", 0, <<>>)
PwGenStdoutErr == Err("PwGenStdoutErr", 0, <<>>)
PwGenDied == Err("PwGenDied", 0, <<>>)

Outcome(spawnOk, waitOk, code, stderrOk, stderr, stdoutOk, out) ==
    [spawnOk |-> spawnOk, waitOk |-> waitOk, code |-> code,
     stderrOk |-> stderrOk, stderr |-> stderr, stdoutOk |-> stdoutOk, stdout |-> out]

Exited(code, stderrOk, stderr) == Outcome(TRUE, TRUE, <<code>>, stderrOk, stderr, TRUE, <<>>)
Printed(stdoutOk, out) == Outcome(TRUE, TRUE, <<0>>, TRUE, <<>>, stdoutOk, out)

Outcomes ==
    { Outcome(FALSE, FALSE, <<>>, FALSE, <<>>, FALSE, <<>>),   \* spawn fails
      Outcome(TRUE, FALSE, <<>>, FALSE, <<>>, FALSE, <<>>),    \* wait fails
      Outcome(TRUE, TRUE, <<>>, TRUE, <<>>, TRUE, <<>>),       \* killed by a signal
      Exited(1, FALSE, <<>>),                                  \* stderr unreadable
      Exited(1, TRUE, <<" ", NL>>),                            \* stderr blank
      Exited(1, TRUE, <<"e", NL>>),                            \* stderr "e"
      Printed(FALSE, <<>>),                                    \* stdout unreadable
      Printed(TRUE, <<>>),                                     \* stdout empty
      Printed(TRUE, <<" ", NL>>),                              \* stdout blank
      Printed(TRUE, <<"!", "a", NL>>),
      Printed(TRUE, <<" ", "#", "b", NL>>),
      Printed(TRUE, <<"X", "a", NL>>),
      Printed(TRUE, <<"a", "!", NL>>) }

\* From wait() to the end of `if !exit_status.success()`: the error returned,
\* or NotRun when the process exited with status zero and generate goes on.
gen_exit(o) ==
    IF ~o.spawnOk THEN PwGenSpawn
    ELSE IF ~o.waitOk THEN PwGenWait
    ELSE IF o.code # <<0>>
         THEN IF o.code = <<>> THEN PwGenDied
              ELSE IF ~o.stderrOk THEN PwGenStderrErr(o.code[1])
              ELSE IF trim(o.stderr) = <<>> THEN PwGenErr(o.code[1])
              ELSE PwGenErrMsg(o.code[1], trim(o.stderr))
    ELSE NotRun

\* `if let Some(mut out) = child.stdout`: next is "return" (with err),
\* "continue" (of 'gen_loop, after info! of log) or "break" (after println!
\* of print).
Policy(next, err, print, log) == [next |-> next, err |-> err, print |-> print, log |-> log]

gen_policy_PrintRejected(o) ==
    IF ~o.stdoutOk THEN Policy("return", PwGenStdoutErr, <<>>, <<>>)
    ELSE LET out_str == trim(o.stdout)
         IN  IF out_str = <<>> THEN Policy("return", PwGenNoStdout, <<>>, <<>>)
             ELSE IF is_ascii_punctuation(Head(out_str))
                  THEN Policy("continue", NotRun, <<out_str>>, <<out_str>>)
             ELSE Policy("break", Ok, <<out_str>>, <<>>)

gen_policy(o) ==
    IF ~o.stdoutOk THEN Policy("return", PwGenStdoutErr, <<>>, <<>>)
    ELSE LET out_str == trim(o.stdout)
         IN  IF out_str = <<>> THEN Policy("return", PwGenNoStdout, <<>>, <<>>)
             ELSE IF is_ascii_punctuation(Head(out_str))
                  THEN Policy("continue", NotRun, <<>>, <<out_str>>)
             ELSE Policy("break", Ok, <<out_str>>, <<>>)

\* One turn of 'gen_loop.
gen_turn_RetryOnFailure(o) ==
    LET e == gen_exit(o)
    IN  IF e.kind = "PwGenErr" THEN Policy("continue", NotRun, <<>>, <<>>)
        ELSE IF e # NotRun THEN Policy("return", e, <<>>, <<>>)
        ELSE gen_policy(o)

gen_turn(o) ==
    LET e == gen_exit(o)
    IN  IF e # NotRun THEN Policy("return", e, <<>>, <<>>) ELSE gen_policy(o)

(***************************************************************************)
(* The inputs.  A store is written from line descriptors: the tokens of    *)
(* the line, the whitespace before the first token and the whitespace      *)
(* between tokens.  The handlers see only the rendered text.               *)
(***************************************************************************)
Line(pre, sep, toks) == [pre |-> pre, sep |-> sep, toks |-> toks]

RECURSIVE Join(_, _)
Join(toks, sep) ==
    IF toks = <<>> THEN <<>>
    ELSE IF Len(toks) = 1 THEN toks[1]
    ELSE toks[1] \o sep \o Join(Tail(toks), sep)

RenderLine(l) == l.pre \o Join(l.toks, l.sep)

RECURSIVE RenderStore(_)
RenderStore(ls) ==
    IF ls = <<>> THEN <<>> ELSE RenderLine(Head(ls)) \o <<NL>> \o RenderStore(Tail(ls))

SP == <<" ">>

LineUniverse ==
    { \* well-formed records
      Line(<<>>, SP, << <<"+">>, <<"a">>, <<"l">>, <<"u">>, <<"p">> >>),
      Line(<<>>, SP, << <<"+">>, <<"b", "A">>, <<"l">>, <<"u">>, <<"%", "N">> >>),
      Line(<<>>, SP, << <<"-">>, <<"a">>, <<"l">>, <<"u">>, <<"r">> >>),
      Line(<<>>, SP, << <<"*">>, <<"a">>, <<"l">>, <<"u">>, <<"s">> >>),
      Line(SP, <<" ", "\t">>, << <<"+">>, <<"A">>, <<"l">>, <<"u">>, <<"p">>, <<"x">> >>),
      \* malformed lines
      Line(<<>>, SP, << <<"x">>, <<"a">>, <<"l">>, <<"u">>, <<"p">> >>),
      Line(<<>>, SP, << <<"x">> >>),
      Line(<<>>, SP, << <<"+">> >>),
      Line(<<>>, SP, << <<"+">>, <<"a">> >>),
      Line(<<>>, SP, << <<"-">>, <<"a">>, <<"l">> >>),
      Line(SP, SP, << <<"*">>, <<"a">>, <<"l">>, <<"u">> >>),
      \* a blank line and a comment
      Line(SP, SP, <<>>),
      Line(SP, SP, << <<"#">>, <<"+">>, <<"a">> >>) }

Stores == UNION { [1..n -> LineUniverse] : n \in 0..MaxLines }

Accounts == { <<"a">>, <<"A">> }
Queries == { <<>>, <<"a">>, <<"B", "a">> }
Formats == { <<"%", "N", "|", "%", "L", "|", "%", "U", "|", "%", "P">>,
             <<"%", "%", "N", ":", "%", "P", "%">> }

(***************************************************************************)
(* main: one invocation of one subcommand.                                 *)
(***************************************************************************)
NoEntry == NoData

FmtIdle ==
    /\ fmtIn = <<>>
    /\ entryIn = NoEntry
    /\ fmtOut = <<>>
    /\ fmtPc = "idle"

GenIdle ==
    /\ gpc = "idle"
    /\ spawned = 0
    /\ attempts = <<>>
    /\ gout = <<>>
    /\ verbose = 0
    /\ glog = <<>>
    /\ gresult = NotRun

StoreIdle ==
    /\ store = <<>>
    /\ file = <<>>
    /\ fileOk = TRUE
    /\ acc = <<>>
    /\ format = <<>>
    /\ pc = "idle"
    /\ result = NotRun
    /\ stdout = <<>>
    /\ data = <<>>
    /\ buf = <<>>

InitStore ==
    /\ cmd \in {"check", "get", "list"}
    /\ store \in Stores
    /\ file = RenderStore(store)
    /\ fileOk \in BOOLEAN
    /\ fileOk \/ store = <<>>
    /\ acc \in (IF cmd = "get" THEN Accounts ELSE IF cmd = "list" THEN Queries ELSE {<<>>})
    /\ format \in (IF cmd = "get" THEN Formats ELSE {<<>>})
    /\ pc = "start"
    /\ result = NotRun
    /\ stdout = <<>>
    /\ data = <<>>
    /\ buf = <<>>
    /\ GenIdle

InitGen ==
    /\ cmd = "gen"
    /\ StoreIdle
    /\ gpc = "loop"
    /\ spawned = 0
    /\ attempts = <<>>
    /\ gout = <<>>
    /\ verbose \in {0, 1}
    /\ glog = <<>>
    /\ gresult = NotRun

Init == FmtIdle /\ (InitStore \/ InitGen)

\* read(file)?, then the handler.
Handle(r) ==
    /\ pc' = "done"
    /\ IF fileOk
       THEN /\ result' = r.result
            /\ stdout' = r.stdout
            /\ data' = r.data
            /\ buf' = r.buf
       ELSE /\ result' = PassFile
            /\ UNCHANGED <<stdout, data, buf>>
    /\ UNCHANGED <<store, file, fileOk, cmd, acc, format, fmtVars, genVars>>

Check ==
    /\ pc = "start"
    /\ cmd = "check"
    /\ Handle(check(file))

Get ==
    /\ pc = "start"
    /\ cmd = "get"
    /\ Handle(get(file, acc, format))

List ==
    /\ pc = "start"
    /\ cmd = "list"
    /\ Handle(list(file, acc))

\* One turn of generate's loop, with the outcome o of the pwgen process.
Generate ==
    /\ gpc = "loop"
    /\ spawned < MaxAttempts
    /\ \E o \in Outcomes :
        LET t == gen_turn(o)
        IN  /\ spawned' = spawned + 1
            /\ attempts' = Append(attempts, o)
            /\ gout' = gout \o t.print
            /\ glog' = IF verbose >= 1 THEN glog \o t.log ELSE glog
            /\ gpc' = CASE t.next = "continue" -> "loop"
                        [] t.next = "break" -> "done"
                        [] OTHER -> "failed"
            /\ gresult' = t.err
    /\ UNCHANGED <<cmd, verbose, storeVars, fmtVars>>

Next == Check \/ Get \/ List \/ Generate

Spec == Init /\ [][Next]_vars

(***************************************************************************)
(* fmt_entry as a pure function: the template and the record are drawn     *)
(* from bounded sets and the one action applies it.                        *)
(***************************************************************************)
FmtAlphabet == {"%", "N", "L", "U", "P", "x"}

Templates == UNION { [1..n -> FmtAlphabet] : n \in 0..MaxFmtLen }

FmtEntries ==
    { [name |-> <<"a">>, link |-> <<"l">>, username |-> <<"u">>, password |-> <<"p">>],
      [name |-> <<"%", "P">>, link |-> <<"%">>, username |-> <<"N">>,
       password |-> <<"%", "%", "N">>] }

InitFmt ==
    /\ cmd = "fmt"
    /\ StoreIdle
    /\ GenIdle
    /\ fmtIn \in Templates
    /\ entryIn \in FmtEntries
    /\ fmtOut = <<>>
    /\ fmtPc = "start"

Render ==
    /\ fmtPc = "start"
    /\ fmtOut' = fmt_entry(fmtIn, entryIn)
    /\ fmtPc' = "done"
    /\ UNCHANGED <<fmtIn, entryIn, cmd, storeVars, genVars>>

NextFmt == Render

SpecFmt == InitFmt /\ [][NextFmt]_vars

(***************************************************************************)
(* What the store says, read off the line descriptors it was written from  *)
(* (not off the text the handlers parse).                                  *)
(***************************************************************************)
RefMarkers == { <<"+">>, <<"-">>, <<"*">> }

RefSkipped(l) == l.toks = <<>> \/ Head(Head(l.toks)) = "#"

RefWellFormed(l) == ~RefSkipped(l) /\ Len(l.toks) >= 5 /\ l.toks[1] \in RefMarkers

RefRecordLines == { i \in DOMAIN store : ~RefSkipped(store[i]) }

RefMalformedLines == { i \in RefRecordLines : ~RefWellFormed(store[i]) }

RefFirstMalformed == CHOOSE i \in RefMalformedLines : \A j \in RefMalformedLines : i <= j

WellFormedStore == RefMalformedLines = {}

RefMarked(m) == { i \in RefRecordLines : RefWellFormed(store[i]) /\ store[i].toks[1] = m }

RefActiveNamed(q) == { i \in RefMarked(<<"+">>) : store[i].toks[2] = q }

RefEntry(l) ==
    [name |-> l.toks[2], link |-> l.toks[3], username |-> l.toks[4], password |-> l.toks[5]]

\* Of the items the parser yields, the one for physical line i of the store.
RefItem(items, i) == items[Cardinality({ j \in RefRecordLines : j <= i })]

HandlerRan == pc = "done" /\ fileOk

(***************************************************************************)
(* C1                                                                      *)
(***************************************************************************)
\* C1: on a well-formed store, get ends in exactly one of three outcomes,
\* decided by k, the number of Active records whose name equals the query:
\* k = 0 is NoMatches, k = 1 prints that record rendered with the caller's
\* template, k >= 2 is Mismatch.  Inactive and PendingChange records of that
\* name do not count.
C1_GetOutcomeByActiveCount ==
    (HandlerRan /\ cmd = "get" /\ WellFormedStore) =>
        LET k == Cardinality(RefActiveNamed(acc))
        IN  /\ k = 0 => result = NoMatches(acc) /\ stdout = <<>>
            /\ k = 1 => /\ result = Ok
                        /\ \A i \in RefActiveNamed(acc) :
                               stdout = <<fmt_entry(format, RefEntry(store[i]))>>
            /\ k >= 2 => result = Mismatch(acc) /\ stdout = <<>>

\* get found the one Active record of the name although an Inactive and a
\* PendingChange record carry the same name.
C1_Witness ==
    /\ HandlerRan /\ cmd = "get" /\ WellFormedStore
    /\ Cardinality(RefActiveNamed(acc)) = 1
    /\ \E i \in RefMarked(<<"-">>) : store[i].toks[2] = acc
    /\ \E i \in RefMarked(<<"*">>) : store[i].toks[2] = acc
    /\ result = Ok
    /\ Len(stdout) = 1

(***************************************************************************)
(* C2                                                                      *)
(***************************************************************************)
\* C2 as stated: whenever the store holds a malformed line, check, get and
\* list end with the parse error of the first malformed line.
C2_FailFastEveryHandler ==
    (HandlerRan /\ ~WellFormedStore) =>
        result = Entry_parse(RefFirstMalformed, store[RefFirstMalformed].toks).err

\* get returns Mismatch as soon as it meets the second Active record of the
\* name, before the parser reaches the malformed line.
C2_GetReturnsBeforeMalformedLine ==
    Cardinality({ i \in RefActiveNamed(acc) : i < RefFirstMalformed }) >= 2

\* C2 (amended): whenever the store holds a malformed line, check and list end
\* with the parse error of the first malformed line; so does get, unless two
\* Active records named like the query stand before that line, and then get
\* ends with Mismatch.  None of the three ends with success or NoMatches.
C2_FailFastUnlessEarlyMismatch ==
    (HandlerRan /\ ~WellFormedStore) =>
        IF cmd = "get" /\ C2_GetReturnsBeforeMalformedLine
        THEN result = Mismatch(acc)
        ELSE result = Entry_parse(RefFirstMalformed, store[RefFirstMalformed].toks).err

\* A handler stopped at a malformed line that has records before and after it.
C2_Witness ==
    /\ HandlerRan /\ ~WellFormedStore
    /\ cmd = "check"
    /\ RefFirstMalformed = 2
    /\ RefWellFormed(store[1])
    /\ Len(store) = 3 /\ RefWellFormed(store[3])
    /\ result.num = 2
    /\ result.kind = "MissingUsername"

(***************************************************************************)
(* C3                                                                      *)
(***************************************************************************)
\* C3: every non-blank non-comment line whose first token is not one of
\* "+", "-", "*" parses to InvalidEntryMarker with the line's 1-based number
\* and that token, however many tokens follow it.
C3_InvalidMarkerWhateverFollows ==
    HandlerRan =>
        LET items == parse(file)
        IN  \A i \in RefRecordLines :
                store[i].toks[1] \notin RefMarkers =>
                    RefItem(items, i) = ParseErr(InvalidEntryMarker(i, store[i].toks[1]))

(***************************************************************************)
(* C4                                                                      *)
(***************************************************************************)
RefFirstMissing(n, num) ==
    CASE n = 1 -> MissingName(num)
      [] n = 2 -> MissingLink(num)
      [] n = 3 -> MissingUsername(num)
      [] n = 4 -> MissingPassword(num)

\* C4: a line with a valid marker and fewer than four further tokens parses
\* to the error of the first missing field (1, 2, 3, 4 tokens in all give
\* MissingName, MissingLink, MissingUsername, MissingPassword), tagged with
\* the line's 1-based position counting the blank and comment lines before
\* it, whatever the other lines of the store hold.  (parse does not read the
\* subcommand, so the stores are looked at once, after check.)
C4_FirstMissingField ==
    (HandlerRan /\ cmd = "check") =>
        LET items == parse(file)
        IN  \A i \in RefRecordLines :
                (store[i].toks[1] \in RefMarkers /\ Len(store[i].toks) <= 4) =>
                    RefItem(items, i) = ParseErr(RefFirstMissing(Len(store[i].toks), i))

\* "+ a" on line 2 after a blank or comment line and before a well-formed
\* record: check ends with MissingLink(2).
C4_Witness ==
    /\ HandlerRan /\ cmd = "check"
    /\ Len(store) = 3
    /\ RefSkipped(store[1])
    /\ store[2].toks = << <<"+">>, <<"a">> >>
    /\ RefWellFormed(store[3])
    /\ result = MissingLink(2)

(***************************************************************************)
(* C5                                                                      *)
(***************************************************************************)
\* Case folding for the comparison, here to upper case.
RefFold(c) ==
    CASE c = "a" -> "A"
      [] c = "b" -> "B"
      [] c = "l" -> "L"
      [] c = "n" -> "N"
      [] c = "p" -> "P"
      [] c = "u" -> "U"
      [] c = "x" -> "X"
      [] OTHER -> c

RefContainsFolded(name, q) ==
    \E off \in 0..(Len(name) - Len(q)) :
        \A k \in 1..Len(q) : RefFold(name[off + k]) = RefFold(q[k])

\* 'name (link) username secret'
RefListLine(l) ==
    l.toks[2] \o <<" ", "(">> \o l.toks[3] \o <<")", " ">> \o l.toks[4] \o <<" ">> \o l.toks[5]

RECURSIVE RefListing(_, _)
RefListing(ls, q) ==
    IF ls = <<>> THEN <<>>
    ELSE LET l == Head(ls)
             shown == /\ RefWellFormed(l)
                      /\ l.toks[1] = <<"+">>
                      /\ RefContainsFolded(l.toks[2], q)
         IN  (IF shown THEN <<RefListLine(l)>> ELSE <<>>) \o RefListing(Tail(ls), q)

\* C5: on a well-formed store, list succeeds and prints exactly one line
\* 'name (link) username secret' per Active record whose name contains the
\* query after both are case-folded, in store order; Inactive and
\* PendingChange records are not printed, the empty query prints every Active
\* record, and no match at all is a success.
C5_ListPrintsActiveMatchesInOrder ==
    (HandlerRan /\ cmd = "list" /\ WellFormedStore) =>
        /\ result = Ok
        /\ stdout = RefListing(store, acc)
        /\ acc = <<>> => Len(stdout) = Cardinality(RefMarked(<<"+">>))

\* Query "a" printed the Active records "bA" and "a" in store order and left
\* out the Inactive record "a" between them.
C5_Witness ==
    /\ HandlerRan /\ cmd = "list" /\ WellFormedStore
    /\ acc = <<"a">>
    /\ Len(store) = 3
    /\ RefMarked(<<"+">>) = {1, 3}
    /\ RefMarked(<<"-">>) = {2}
    /\ store[1].toks[2] = <<"b", "A">>
    /\ store[3].toks[2] = <<"a">>
    /\ result = Ok
    /\ Len(stdout) = 2
    /\ stdout[1] = <<"b", "A", " ", "(", "l", ")", " ", "u", " ", "%", "N">>

(***************************************************************************)
(* C6                                                                      *)
(***************************************************************************)
\* The three numbers printed, read back from the line.
RefDigits == <<"0", "1", "2", "3", "4", "5", "6", "7", "8", "9">>

RefDigitValue(c) == CHOOSE d \in 0..9 : RefDigits[d + 1] = c

RECURSIVE RefNumbersIn(_, _, _)
RefNumbersIn(line, cur, nums) ==
    IF line = <<>> THEN (IF cur = <<>> THEN nums ELSE nums \o cur)
    ELSE IF \E d \in 1..10 : RefDigits[d] = Head(line)
         THEN RefNumbersIn(Tail(line),
                           IF cur = <<>> THEN <<RefDigitValue(Head(line))>>
                           ELSE <<cur[1] * 10 + RefDigitValue(Head(line))>>,
                           nums)
    ELSE RefNumbersIn(Tail(line), <<>>, IF cur = <<>> THEN nums ELSE nums \o cur)

\* C6: on a well-formed store, check succeeds and reports three counts in the
\* order active, inactive, pending-change, equal to the numbers of records
\* marked "+", "-", "*", and the three add up to the number of non-blank
\* non-comment lines.
C6_TallyCountsByMarker ==
    (HandlerRan /\ cmd = "check" /\ WellFormedStore) =>
        /\ result = Ok
        /\ Len(stdout) = 1
        /\ LET n == RefNumbersIn(stdout[1], <<>>, <<>>)
           IN  /\ n = << Cardinality(RefMarked(<<"+">>)),
                         Cardinality(RefMarked(<<"-">>)),
                         Cardinality(RefMarked(<<"*">>)) >>
               /\ n[1] + n[2] + n[3] = Cardinality(RefRecordLines)

\* check counted a store with more Active than Inactive than PendingChange
\* records.
C6_Witness ==
    /\ HandlerRan /\ cmd = "check" /\ WellFormedStore
    /\ Cardinality(RefMarked(<<"+">>)) = 2
    /\ Cardinality(RefMarked(<<"-">>)) = 1
    /\ Cardinality(RefMarked(<<"*">>)) = 0
    /\ result = Ok
    /\ stdout = <<TallyLine(2, 1, 0)>>

(***************************************************************************)
(* C7                                                                      *)
(***************************************************************************)
\* Position i of the template starts a "%" pair iff it holds "%" and the
\* position before it does not start one.
RefStarts(fmt) ==
    LET st[i \in 0..Len(fmt)] == IF i = 0 THEN FALSE ELSE fmt[i] = "%" /\ ~st[i - 1]
    IN  st

RefSubstitute(c, e) ==
    CASE c = "N" -> e.name
      [] c = "L" -> e.link
      [] c = "U" -> e.username
      [] c = "P" -> e.password
      [] OTHER -> <<"%", c>>

\* What position i of the template contributes to the output.
RefPiece(fmt, e, i) ==
    LET st == RefStarts(fmt)
    IN  IF st[i - 1] THEN <<>>
        ELSE IF st[i] THEN (IF i = Len(fmt) THEN <<"%">> ELSE RefSubstitute(fmt[i + 1], e))
        ELSE <<fmt[i]>>

RECURSIVE RefRenderFrom(_, _, _)
RefRenderFrom(fmt, e, i) ==
    IF i > Len(fmt) THEN <<>> ELSE RefPiece(fmt, e, i) \o RefRenderFrom(fmt, e, i + 1)

RefRender(fmt, e) == RefRenderFrom(fmt, e, 1)

\* C7: rendering is one left-to-right pass: %N, %L, %U, %P become the
\* record's fields verbatim (a "%" inside a field is not expanded), "%" before
\* any other character leaves both unchanged ("%%N" renders as "%%N"), a
\* trailing lone "%" stays, every other character is copied; a template
\* without "%" renders to itself.
C7_RenderSinglePass ==
    fmtPc = "done" =>
        /\ fmtOut = RefRender(fmtIn, entryIn)
        /\ (\A i \in DOMAIN fmtIn : fmtIn[i] # "%") => fmtOut = fmtIn
        /\ fmtIn = <<"%", "%", "N">> => fmtOut = <<"%", "%", "N">>
        /\ fmtIn = <<"%", "N">> => fmtOut = entryIn.name
        /\ fmtIn = <<"x", "%">> => fmtOut = <<"x", "%">>

\* "%N%" on a record whose name is "%P": the name is put in unexpanded, and
\* the trailing "%" stays.
C7_Witness ==
    /\ fmtPc = "done"
    /\ fmtIn = <<"%", "N", "%">>
    /\ entryIn.name = <<"%", "P">>
    /\ fmtOut = <<"%", "P", "%">>

(***************************************************************************)
(* C8, C9                                                                  *)
(***************************************************************************)
RefNonWs(s) == { i \in DOMAIN s : ~IsWhitespace(s[i]) }

RefTrim(s) ==
    IF RefNonWs(s) = {} THEN <<>>
    ELSE SubSeq(s, CHOOSE i \in RefNonWs(s) : \A j \in RefNonWs(s) : i <= j,
                   CHOOSE i \in RefNonWs(s) : \A j \in RefNonWs(s) : i >= j)

RefCandidate(o) ==
    /\ o.spawnOk /\ o.waitOk /\ o.code = <<0>> /\ o.stdoutOk
    /\ RefTrim(o.stdout) # <<>>

RefRejected(o) == RefCandidate(o) /\ is_ascii_punctuation(RefTrim(o.stdout)[1])

RefAccepted(o) == RefCandidate(o) /\ ~is_ascii_punctuation(RefTrim(o.stdout)[1])

\* The fatal error of an attempt that gave no candidate.
RefFatal(o) ==
    IF ~o.spawnOk THEN PwGenSpawn
    ELSE IF ~o.waitOk THEN PwGenWait
    ELSE IF o.code = <<>> THEN PwGenDied
    ELSE IF o.code # <<0>>
         THEN IF ~o.stderrOk THEN PwGenStderrErr(o.code[1])
              ELSE IF RefTrim(o.stderr) = <<>> THEN PwGenErr(o.code[1])
              ELSE PwGenErrMsg(o.code[1], RefTrim(o.stderr))
    ELSE IF ~o.stdoutOk THEN PwGenStdoutErr
    ELSE PwGenNoStdout

\* C8: generate spawns another process only after an attempt that exited with
\* status zero, whose output was read and, trimmed, is non-empty and begins
\* with ASCII punctuation; after any other failed attempt it returns that
\* attempt's fatal error and spawns nothing more.
C8_RespawnOnlyAfterPunctuation ==
    /\ spawned = Len(attempts)
    /\ \A i \in 1..(spawned - 1) : RefRejected(attempts[i])
    /\ (gpc = "loop" /\ spawned > 0) => RefRejected(attempts[spawned])
    /\ (spawned > 0 /\ ~RefCandidate(attempts[spawned])) =>
           /\ gpc = "failed"
           /\ gresult = RefFatal(attempts[spawned])
           /\ ~ENABLED Generate

\* After a rejected candidate a second process was spawned; it exited with a
\* non-zero code and generate failed.
C8_Witness ==
    /\ spawned = 2
    /\ RefRejected(attempts[1])
    /\ attempts[2].code = <<1>>
    /\ gpc = "failed"
    /\ gresult.kind = "PwGenErr"

\* C9: generate prints exactly one candidate, the first whose trimmed form
\* does not begin with ASCII punctuation, and then ends successfully; the
\* rejected candidates before it are never printed; while every candidate
\* begins with punctuation the loop has not ended and nothing is printed.
C9_EmitsFirstAcceptableCandidate ==
    /\ gpc = "done" =>
           /\ spawned > 0
           /\ \A i \in 1..(spawned - 1) : RefRejected(attempts[i])
           /\ RefAccepted(attempts[spawned])
           /\ gout = <<RefTrim(attempts[spawned].stdout)>>
           /\ gresult = Ok
    /\ (spawned > 0 /\ RefAccepted(attempts[spawned])) => gpc = "done"
    /\ gpc # "done" => gout = <<>>
    /\ (\A i \in 1..spawned : RefRejected(attempts[i])) => gpc \in {"idle", "loop"}

\* Two punctuation-leading candidates were discarded and the third one printed.
C9_Witness ==
    /\ gpc = "done"
    /\ spawned = 3
    /\ RefRejected(attempts[1])
    /\ RefRejected(attempts[2])
    /\ gout = << <<"X", "a">> >>

(***************************************************************************)
(* C10                                                                     *)
(***************************************************************************)
\* C10: once check, get or list has read the store into memory, the buffer
\* holding it is zeroed before the handler returns, on success and on every
\* error return.
C10_BufferScrubbedOnEveryReturn ==
    (HandlerRan /\ cmd \in {"check", "get", "list"}) =>
        /\ Len(buf) = Len(file)
        /\ \A i \in DOMAIN buf : buf[i] = NUL

====
